---- MODULE Spec2Model ----
(***************************************************************************)
(* SHRDLURN community & logging server (src/server/server.py).             *)
(*                                                                         *)
(* State: the module-global `session` object and its attributes, the log   *)
(* files under data/log, the struct files under data/structs, the members  *)
(* of the socket rooms, the clock, and for every connection the position   *)
(* and local variables of the handler it is running.                       *)
(*                                                                         *)
(* A handler that touches one file more than once is modelled as one       *)
(* action per file operation (listdir, read, open-for-write, close), since *)
(* the source takes no lock around them.  Spec lets the handlers of        *)
(* different connections interleave at these points; the specifications    *)
(* named ...Seq start a handler only when no other handler is running.     *)
(*                                                                         *)
(* The helper functions (reverse_readline, the scan of emit_utterances,    *)
(* score_struct) are also called on their own, on arguments drawn from     *)
(* bounded sets: SpecScan, SpecRecent and SpecScore.                       *)
(***************************************************************************)
EXTENDS Integers, Sequences, FiniteSets, TLC

VARIABLES session,   \* attributes of the module-global `session` (the handler function)
          sent,      \* per connection: the sessionId it supplied itself, if any
          logs,      \* data/log/<uid>.json, a sequence of entries
          structs,   \* data/structs/<uid>/<id>.json, a sequence of lines
          rooms,     \* room name -> connections in the room
          now,       \* the wall clock, in seconds
          h,         \* per connection: the handler it is running, if any
          last,      \* the handler that finished last, and what it did
          acked,     \* <<uid, id, voter>>: an upvote handler wrote voter into the record
          call       \* a helper function called on its own: its arguments and its result

vars == <<session, sent, logs, structs, rooms, now, h, last, acked, call>>

\* the state of the server
server == <<session, sent, logs, structs, rooms, now, h, last, acked>>

----------------------------------------------------------------------------
(* Bounds *)

MaxTime == 1
MaxDisk == 4

Conns == {1, 2}

EmptyDict == [x \in {} |-> x]

(* Inputs *)

Alice == <<"a","b","c","d","e","f","1","2","3","4","5","6","7","8","9","0">>
Bob == <<"b","o","b">>
SessionIds == {Alice, Bob}

Payloads == {[shape |-> "cube"], [shape |-> "ball"]}
RoomNames == {"community", "lobby"}

ShareInputs == {[struct |-> p] : p \in Payloads} \cup {EmptyDict}

LogInputs ==
    { [type |-> "accept", msg |-> [query |-> "add red"]],
      [type |-> "define", msg |-> [defineAs |-> "tower"]],
      [type |-> "try", msg |-> [query |-> "add red"]],
      [msg |-> [query |-> "add red"]] }

\* a log request with a type and one without
TwoLogs ==
    { [type |-> "accept", msg |-> [query |-> "add red"]],
      [msg |-> [query |-> "add red"]] }

\* one payload and one record address
OneShare == {[struct |-> [shape |-> "cube"]]}
OneUpvote == {[uid |-> Alice, id |-> "1"]}

----------------------------------------------------------------------------
(* Pure helpers *)

ScrubLen == 8

scrub_uid(uid) == SubSeq(uid, 1, IF Len(uid) < ScrubLen THEN Len(uid) ELSE ScrubLen)

Digits == <<"1", "2", "3", "4", "5", "6", "7", "8", "9">>

\* str(n) and int(s) on the decimal names of the struct files
Str(n) == Digits[n]
ToInt(s) == CHOOSE n \in 1..Len(Digits) : Digits[n] = s

\* the names a struct file can have, without the ".json"
IdNames == {Str(i) : i \in 1..Len(Digits)}

SetMax(S) == CHOOSE m \in S : \A x \in S : x <= m

current_unix_time == now

\* the HN formula (P + 1) / ((T + 2) ^ GRAVITY), kept as its inputs: the
\* upvote count P, and the submission time and the current time that give T
score_struct(timestamp, upvotesN) ==
    [upvotesN |-> upvotesN, timestamp |-> timestamp, now |-> current_unix_time]

HasUid == "uid" \in DOMAIN session

\* every enumeration of the finite set S, for os.listdir and os.walk
RECURSIVE Orders(_)
Orders(S) ==
    IF S = {} THEN {<<>>}
    ELSE UNION {{<<x>> \o rest : rest \in Orders(S \ {x})} : x \in S}

----------------------------------------------------------------------------
(* Handler records *)

\* no helper function is called on its own
NoCall == [fn |-> "none"]

Idle == [pc |-> "ready"]
Gone == [pc |-> "closed"]

\* a handler's position pc, its request, the session.uid its file writes go
\* under and its local variables
Running(pc, op, data, as, loc) ==
    [pc |-> pc, op |-> op, data |-> data, as |-> as, loc |-> loc]

\* the handler of connection c returns: its request, how it ended ("ok",
\* "noop" for an early return, "error" for a raised exception), the events it
\* emitted, the session.uid its file writes went under, and the sessionId
\* the connection had supplied itself
Return(c, op, data, outcome, emitted, as, loc) ==
    /\ h' = [h EXCEPT ![c] = Idle]
    /\ last' = [conn |-> c, sent |-> sent[c], op |-> op, data |-> data,
                outcome |-> outcome, emitted |-> emitted, as |-> as, loc |-> loc]

InFlight(c) == h[c].pc \notin {"ready", "closed"}

\* emit(name, msg): to the caller alone
ToSelf(c, name, msg) == [name |-> name, msg |-> msg, to |-> {c}]

\* emit(name, msg, broadcast=True, room="community")
ToCommunity(name, msg) == [name |-> name, msg |-> msg, to |-> rooms["community"]]

\* a log that opens the file with 'w': the message replaces what was there
log_Overwrite(uid, message) ==
    [logs EXCEPT ![uid] = <<[timestamp |-> current_unix_time] @@ message>>]

\* log(message), called with session.uid = uid: stamp the message and append it
\* to the uid's file
log(uid, message) ==
    [logs EXCEPT ![uid] = Append(@, [timestamp |-> current_unix_time] @@ message)]

\* the struct files on disk, as <<uid, name>>
Paths == {p \in SessionIds \X IdNames : p[2] \in DOMAIN structs[p[1]]}

RECURSIVE LogEntries(_)
LogEntries(S) ==
    IF S = {} THEN 0
    ELSE LET u == CHOOSE x \in S : TRUE IN Len(logs[u]) + LogEntries(S \ {u})

RECURSIVE StoredVoters(_)
StoredVoters(P) ==
    IF P = {} THEN 0
    ELSE LET p == CHOOSE x \in P : TRUE
             lines == structs[p[1]][p[2]]
         IN  (IF Len(lines) = 0 THEN 0 ELSE Len(lines[1])) + StoredVoters(P \ {p})

\* a model bound, not program behaviour: a request that can add to the disk
\* starts only while the disk holds fewer than MaxDisk items (log entries,
\* struct files and stored upvoters)
DiskRoom == LogEntries(SessionIds) + Cardinality(Paths) + StoredVoters(Paths) < MaxDisk

----------------------------------------------------------------------------
Init ==
    /\ session = EmptyDict
    /\ sent = [c \in Conns |-> {}]
    /\ logs = [u \in SessionIds |-> <<>>]
    /\ structs = [u \in SessionIds |-> EmptyDict]
    /\ rooms = [r \in RoomNames |-> {}]
    /\ now = 0
    /\ h = [c \in Conns |-> Gone]
    /\ last = [conn |-> 0, sent |-> {}, op |-> "none", data |-> EmptyDict,
               outcome |-> "none", emitted |-> <<>>, as |-> <<>>, loc |-> EmptyDict]
    /\ acked = {}
    /\ call = NoCall

\* time passes
Tick ==
    /\ now < MaxTime
    /\ now' = now + 1
    /\ UNCHANGED <<session, sent, logs, structs, rooms, h, last, acked, call>>

\* @socketio.on('connect')
connect(c) ==
    /\ h[c].pc = "closed"
    /\ Return(c, "connect", EmptyDict, "ok",
              <<ToSelf(c, "ok", [data |-> "Connected"])>>, <<>>, EmptyDict)
    /\ UNCHANGED <<session, sent, logs, structs, rooms, now, acked, call>>

\* @socketio.on('session'): session.uid = data['sessionId'], then log a connect
session_init(c) ==
    /\ h[c].pc = "ready"
    /\ DiskRoom
    /\ \E sid \in SessionIds :
        /\ session' = [uid |-> sid]
        /\ logs' = log(sid, [type |-> "connect"])
        /\ sent' = [sent EXCEPT ![c] = {sid}]
        /\ h' = [h EXCEPT ![c] = Idle]
        /\ last' = [conn |-> c, sent |-> {sid}, op |-> "session",
                    data |-> [sessionId |-> sid], outcome |-> "ok",
                    emitted |-> <<>>, as |-> sid, loc |-> EmptyDict]
    /\ UNCHANGED <<structs, rooms, now, acked, call>>

\* a handler that takes every payload as a proper log object
HasType_Always(data) == TRUE

\* line 306: "type" in data
HasType(data) == "type" \in DOMAIN data

\* lines 314-319: the field of data["msg"] the broadcast of this type reads
BroadcastField(data) ==
    IF data.type = "accept" THEN "query"
    ELSE IF data.type = "define" THEN "defineAs"
    ELSE "none"

\* data["type"] or data["msg"][field] raises KeyError
BroadcastFails(data) ==
    \/ "type" \notin DOMAIN data
    \/ /\ BroadcastField(data) # "none"
       /\ ~("msg" \in DOMAIN data /\ BroadcastField(data) \in DOMAIN data.msg)

\* lines 314-319: the broadcast of an accept or a define
LogBroadcast(data) ==
    IF data.type = "accept"
    THEN <<ToCommunity("new_accept",
              [uid |-> scrub_uid(session.uid), query |-> data.msg.query,
               timestamp |-> current_unix_time])>>
    ELSE IF data.type = "define"
    THEN <<ToCommunity("new_define",
              [uid |-> scrub_uid(session.uid), defined |-> data.msg.defineAs,
               timestamp |-> current_unix_time])>>
    ELSE <<>>

\* @socketio.on('log')
handle_log(c, inputs) ==
    /\ h[c].pc = "ready"
    /\ DiskRoom
    /\ \E data \in inputs :
        IF ~HasType(data)
        THEN \* an improper log object: do nothing
             /\ Return(c, "log", data, "noop", <<>>, <<>>, EmptyDict)
             /\ UNCHANGED logs
        ELSE IF ~HasUid
        THEN \* log() reads session.uid: AttributeError
             /\ Return(c, "log", data, "error", <<>>, <<>>, EmptyDict)
             /\ UNCHANGED logs
        ELSE /\ logs' = log(session.uid, data)
             /\ IF BroadcastFails(data)
                THEN Return(c, "log", data, "error", <<>>, session.uid, EmptyDict)
                ELSE Return(c, "log", data, "ok", LogBroadcast(data), session.uid, EmptyDict)
    /\ UNCHANGED <<session, sent, structs, rooms, now, acked, call>>

\* @socketio.on('disconnect'); the transport then drops the connection from
\* every room
disconnect(c) ==
    /\ h[c].pc = "ready"
    /\ DiskRoom
    /\ IF ~HasUid
       THEN /\ last' = [conn |-> c, sent |-> sent[c], op |-> "disconnect",
                        data |-> EmptyDict, outcome |-> "error", emitted |-> <<>>,
                        as |-> <<>>, loc |-> EmptyDict]
            /\ UNCHANGED logs
       ELSE /\ logs' = log(session.uid, [sessionId |-> session.uid, type |-> "disconnect"])
            /\ last' = [conn |-> c, sent |-> sent[c], op |-> "disconnect",
                        data |-> EmptyDict, outcome |-> "ok", emitted |-> <<>>,
                        as |-> session.uid, loc |-> EmptyDict]
    /\ h' = [h EXCEPT ![c] = Gone]
    /\ sent' = [sent EXCEPT ![c] = {}]
    /\ rooms' = [r \in RoomNames |-> rooms[r] \ {c}]
    /\ UNCHANGED <<session, structs, now, acked, call>>

\* @socketio.on('leave')
on_leave(c, names) ==
    /\ h[c].pc = "ready"
    /\ \E room \in names :
        /\ rooms' = [rooms EXCEPT ![room] = @ \ {c}]
        /\ Return(c, "leave", [room |-> room], "ok", <<>>, <<>>, EmptyDict)
    /\ UNCHANGED <<session, sent, logs, structs, now, acked, call>>

----------------------------------------------------------------------------
(* Replay on join *)

\* os.listdir gives the folders, and the files of a folder, in any order; the
\* files of one folder come together
Listings ==
    {ord \in Orders(Paths) :
        \A i, j, k \in 1..Len(ord) :
            (i < j /\ j < k /\ ord[i][1] = ord[k][1]) => ord[j][1] = ord[i][1]}

RECURSIVE StructEvents(_, _)
\* emit_structs over the files in the order ord; a file that does not hold
\* three lines is skipped
StructEvents(c, ord) ==
    IF ord = <<>> THEN <<>>
    ELSE LET uid == ord[1][1]
             fname == ord[1][2]
             lines == structs[uid][fname]
         IN  (IF Len(lines) # 3 THEN <<>>
              ELSE <<ToSelf(c, "struct",
                        [uid |-> scrub_uid(uid), id |-> fname,
                         score |-> score_struct(lines[2], Len(lines[1])),
                         upvotes |-> lines[1], struct |-> lines[3]])>>)
             \o StructEvents(c, Tail(ord))

Latest == 5
MaxUtts == 11

\* the log files on disk with their modification times
LogFiles == {u \in SessionIds : logs[u] # <<>>}

\* st_mtime is a float: the model keeps Subsec steps of time in a second
Subsec == 2

\* line 158-159: the file's modification time, here the time of its last
\* entry, and its uid
file_info(u) == [mtime |-> logs[u][Len(logs[u])].timestamp * Subsec, uid |-> u]

\* line 174: int(s[0])
int_mtime(info) == info.mtime \div Subsec

\* lines 164-169: the index of the first entry with the earliest time
EarliestIdx(latest_5) ==
    CHOOSE i \in 1..Len(latest_5) :
        /\ \A j \in 1..Len(latest_5) : latest_5[i].mtime <= latest_5[j].mtime
        /\ \A j \in 1..(i - 1) : latest_5[j].mtime > latest_5[i].mtime

RECURSIVE Latest5(_, _)
\* lines 153-172: the scan that keeps the Latest most recent files of walk,
\* given as the file_info of each file
Latest5(latest_5, walk) ==
    IF walk = <<>> THEN latest_5
    ELSE LET info == walk[1]
         IN  IF Len(latest_5) < Latest
             THEN Latest5(Append(latest_5, info), Tail(walk))
             ELSE IF info.mtime > latest_5[EarliestIdx(latest_5)].mtime
                  THEN Latest5([latest_5 EXCEPT ![EarliestIdx(latest_5)] = info], Tail(walk))
                  ELSE Latest5(latest_5, Tail(walk))

RECURSIVE SortedDesc(_)
\* sorted(latest_5, key=lambda s: int(s[0]), reverse=True): stable
SortedDesc(seq) ==
    IF seq = <<>> THEN <<>>
    ELSE LET rest == SortedDesc(SubSeq(seq, 1, Len(seq) - 1))
             x == seq[Len(seq)]
             before == SelectSeq(rest, LAMBDA y : int_mtime(y) >= int_mtime(x))
             after == SelectSeq(rest, LAMBDA y : int_mtime(y) < int_mtime(x))
         IN  before \o <<x>> \o after

\* reverse_readline on a file that fits one buffer: the lines, last first
reverse_readline(lines) == [i \in 1..Len(lines) |-> lines[Len(lines) + 1 - i]]

IsUtterance(line) == line.type = "accept" \/ line.type = "define"

\* lines 176-185: the first MaxUtts accepts and defines of the reversed log
Utterances(lines) ==
    LET utts == SelectSeq(reverse_readline(lines), IsUtterance)
    IN  SubSeq(utts, 1, IF Len(utts) < MaxUtts THEN Len(utts) ELSE MaxUtts)

\* emit_utterances over the log files in the order walk
UtteranceEvents(c, walk) ==
    LET top == SortedDesc(Latest5(<<>>, [i \in 1..Len(walk) |-> file_info(walk[i])]))
    IN  [i \in 1..Len(top) |->
            ToSelf(c, "utterances",
                [uid |-> scrub_uid(top[i].uid), utterances |-> Utterances(logs[top[i].uid])])]

\* @socketio.on('join')
on_join(c, names) ==
    /\ h[c].pc = "ready"
    /\ \E room \in names :
        /\ rooms' = [rooms EXCEPT ![room] = @ \cup {c}]
        /\ IF room = "community"
           THEN \E ord \in Listings, walk \in Orders(LogFiles) :
                    Return(c, "join", [room |-> room], "ok",
                           StructEvents(c, ord) \o UtteranceEvents(c, walk), <<>>, EmptyDict)
           ELSE Return(c, "join", [room |-> room], "ok", <<>>, <<>>, EmptyDict)
    /\ UNCHANGED <<session, sent, logs, structs, now, acked, call>>

----------------------------------------------------------------------------
(* share *)

\* the largest name again, the increment forgotten
NewStructId_NoIncrement(names) ==
    IF Cardinality(names) > 0
    THEN Str(SetMax({ToInt(name) : name \in names}))
    ELSE "1"

\* lines 240-242: "1" in an empty folder, else one more than the largest name
NewStructId(names) ==
    IF Cardinality(names) > 0
    THEN Str(SetMax({ToInt(name) : name \in names}) + 1)
    ELSE "1"

\* handle_share, lines 237-244: list the caller's folder and pick the new name
share_list(c, inputs) ==
    /\ h[c].pc = "ready"
    /\ DiskRoom
    /\ \E data \in inputs :
        IF ~HasUid
        THEN /\ Return(c, "share", data, "error", <<>>, <<>>, EmptyDict)
        ELSE LET names == DOMAIN structs[session.uid]
             IN  /\ h' = [h EXCEPT ![c] =
                        Running("share_write", "share", data, session.uid,
                                [names |-> names, new_struct_id |-> NewStructId(names)])]
                 /\ UNCHANGED last
    /\ UNCHANGED <<session, sent, logs, structs, rooms, now, acked, call>>

\* handle_share, lines 246-252: write the file; without data["struct"] the
\* KeyError leaves the two lines written so far
share_write(c) ==
    /\ h[c].pc = "share_write"
    /\ LET data == h[c].data
           uid == h[c].as
           id == h[c].loc.new_struct_id
           submission_time == current_unix_time
       IN  IF "struct" \in DOMAIN data
           THEN /\ structs' = [structs EXCEPT ![uid] =
                       (id :> <<<<>>, submission_time, data.struct>>) @@ @]
                /\ acked' = {a \in acked : <<a[1], a[2]>> # <<uid, id>>}
                /\ h' = [h EXCEPT ![c].pc = "share_emit",
                                  ![c].loc = [names |-> h[c].loc.names,
                                              new_struct_id |-> id,
                                              score |-> score_struct(submission_time, 0)]]
                /\ UNCHANGED last
           ELSE /\ structs' = [structs EXCEPT ![uid] =
                       (id :> <<<<>>, submission_time>>) @@ @]
                /\ acked' = {a \in acked : <<a[1], a[2]>> # <<uid, id>>}
                /\ Return(c, "share", data, "error", <<>>, uid, h[c].loc)
    /\ UNCHANGED <<session, sent, logs, rooms, now, call>>

\* handle_share, lines 255-256: broadcast the new struct
share_emit(c) ==
    /\ h[c].pc = "share_emit"
    /\ Return(c, "share", h[c].data, "ok",
              <<ToCommunity("struct",
                  [uid |-> scrub_uid(session.uid), id |-> h[c].loc.new_struct_id,
                   score |-> h[c].loc.score, upvotes |-> <<>>,
                   struct |-> h[c].data.struct])>>,
              h[c].as, h[c].loc)
    /\ UNCHANGED <<session, sent, logs, structs, rooms, now, acked, call>>

----------------------------------------------------------------------------
(* upvote *)

UpvoteInputs ==
    [uid : SessionIds \cup {scrub_uid(u) : u \in SessionIds}, id : {"1", "2"}]

\* a handler that does not look for the file
isfile_Unchecked(uid, id) == TRUE

\* line 273: os.path.isfile(STRUCTS_FOLDER/uid/id.json)
isfile(uid, id) == uid \in DOMAIN structs /\ id \in DOMAIN structs[uid]

\* a handler that appends the caller whether listed or not
NotIn_Unchecked(uid, upvotes) == TRUE

\* line 283: session.uid not in upvotes
NotIn(uid, upvotes) == \A i \in 1..Len(upvotes) : upvotes[i] # uid

\* upvote, lines 266-274: the two guards
upvote_begin(c, inputs) ==
    /\ h[c].pc = "ready"
    /\ DiskRoom
    /\ \E data \in inputs :
        IF ~HasUid
        THEN Return(c, "upvote", data, "error", <<>>, <<>>, EmptyDict)
        ELSE IF Len(session.uid) = 0 \/ ~isfile(data.uid, data.id)
        THEN Return(c, "upvote", data, "noop", <<>>, <<>>, EmptyDict)
        ELSE /\ h' = [h EXCEPT ![c] = Running("up_read", "upvote", data, <<>>, EmptyDict)]
             /\ UNCHANGED last
    /\ UNCHANGED <<session, sent, logs, structs, rooms, now, acked, call>>

\* the lines of a struct file; open() raises when there is no such file
ReadLines(uid, id) ==
    IF uid \in DOMAIN structs /\ id \in DOMAIN structs[uid]
    THEN structs[uid][id]
    ELSE <<>>

\* upvote, lines 279-280: open the file and read its first line; the read
\* buffers the rest of the file; an empty file makes json.loads raise
upvote_read(c) ==
    /\ h[c].pc = "up_read"
    /\ LET lines == ReadLines(h[c].data.uid, h[c].data.id)
       IN  IF Len(lines) = 0
           THEN Return(c, "upvote", h[c].data, "error", <<>>, <<>>, EmptyDict)
           ELSE /\ h' = [h EXCEPT ![c].pc = "up_check",
                                  ![c].loc = [upvotes |-> lines[1], f |-> Tail(lines),
                                              timestamp |-> <<>>]]
                /\ UNCHANGED last
    /\ UNCHANGED <<session, sent, logs, structs, rooms, now, acked, call>>

\* upvote, lines 283-286: a caller not yet in the list is appended and the
\* file is opened for writing, which empties it
upvote_check(c) ==
    /\ h[c].pc = "up_check"
    /\ IF NotIn(session.uid, h[c].loc.upvotes)
       THEN /\ h' = [h EXCEPT ![c].pc = "up_write",
                              ![c].as = session.uid,
                              ![c].loc.upvotes = Append(@, session.uid)]
            /\ structs' = [structs EXCEPT ![h[c].data.uid][h[c].data.id] = <<>>]
       ELSE /\ h' = [h EXCEPT ![c].pc = "up_emit"]
            /\ UNCHANGED structs
    /\ UNCHANGED <<session, sent, logs, rooms, now, last, acked, call>>

\* upvote, lines 287-290: the new list, then the two buffered lines, reach
\* the file when it is closed
upvote_write(c) ==
    /\ h[c].pc = "up_write"
    /\ LET loc == h[c].loc
       IN  /\ structs' = [structs EXCEPT ![h[c].data.uid][h[c].data.id] =
                            <<loc.upvotes>> \o SubSeq(loc.f, 1, IF Len(loc.f) < 2 THEN Len(loc.f) ELSE 2)]
           /\ h' = [h EXCEPT ![c].pc = "up_emit",
                             ![c].loc.timestamp = SubSeq(loc.f, 1, IF Len(loc.f) < 1 THEN 0 ELSE 1)]
           /\ acked' = acked \cup {<<h[c].data.uid, h[c].data.id, h[c].as>>}
    /\ UNCHANGED <<session, sent, logs, rooms, now, last, call>>

\* upvote, lines 292-296: score and broadcast; `timestamp` is bound only on
\* the path that wrote the file
upvote_emit(c) ==
    /\ h[c].pc = "up_emit"
    /\ LET loc == h[c].loc
       IN  IF Len(loc.timestamp) = 0
           THEN Return(c, "upvote", h[c].data, "error", <<>>, h[c].as,
                       [upvotes |-> loc.upvotes])
           ELSE Return(c, "upvote", h[c].data, "ok",
                    <<ToCommunity("upvote",
                        [uid |-> h[c].data.uid, id |-> h[c].data.id,
                         up |-> scrub_uid(session.uid),
                         score |-> score_struct(loc.timestamp[1], Len(loc.upvotes))])>>,
                    h[c].as, [upvotes |-> loc.upvotes])
    /\ UNCHANGED <<session, sent, logs, structs, rooms, now, acked, call>>

----------------------------------------------------------------------------
(* Specifications *)

\* a running handler takes its next step
Step(c) ==
    \/ share_write(c)
    \/ share_emit(c)
    \/ upvote_read(c)
    \/ upvote_check(c)
    \/ upvote_write(c)
    \/ upvote_emit(c)

\* a request arrives on a connection and its handler starts
Start(c) ==
    \/ connect(c)
    \/ session_init(c)
    \/ handle_log(c, TwoLogs)
    \/ on_join(c, RoomNames)
    \/ on_leave(c, RoomNames)
    \/ share_list(c, ShareInputs)
    \/ upvote_begin(c, UpvoteInputs)
    \/ disconnect(c)

\* the whole server: the handlers of different connections interleave
Next == Tick \/ \E c \in Conns : Start(c) \/ Step(c)

Spec == Init /\ [][Next]_vars

\* no handler is running
Quiet == \A c \in Conns : ~InFlight(c)

\* The specifications below restrict the requests the clients send, and some
\* start a handler only when no other is running.

\* session, share and upvote requests on one record, interleaved
StartUpvote(c) ==
    \/ connect(c)
    \/ session_init(c)
    \/ share_list(c, OneShare)
    \/ upvote_begin(c, OneUpvote)

NextUpvote == Tick \/ \E c \in Conns : StartUpvote(c) \/ Step(c)

SpecUpvote == Init /\ [][NextUpvote]_vars

\* session, share and upvote requests with every record address, one at a time
StartUpvoteSeq(c) ==
    \/ connect(c)
    \/ session_init(c)
    \/ share_list(c, OneShare)
    \/ upvote_begin(c, UpvoteInputs)

NextUpvoteSeq == Tick \/ \E c \in Conns : (Quiet /\ StartUpvoteSeq(c)) \/ Step(c)

SpecUpvoteSeq == Init /\ [][NextUpvoteSeq]_vars

\* session and share requests, interleaved
StartShare(c) ==
    \/ connect(c)
    \/ session_init(c)
    \/ share_list(c, ShareInputs)

NextShare ==
    Tick \/ \E c \in Conns : StartShare(c) \/ share_write(c) \/ share_emit(c)

SpecShare == Init /\ [][NextShare]_vars

\* session and share requests, one at a time
NextShareSeq ==
    Tick \/ \E c \in Conns : (Quiet /\ StartShare(c)) \/ share_write(c) \/ share_emit(c)

SpecShareSeq == Init /\ [][NextShareSeq]_vars

\* session, log, join and leave requests
StartLogs(c) ==
    \/ connect(c)
    \/ session_init(c)
    \/ handle_log(c, TwoLogs)
    \/ on_join(c, {"community"})
    \/ on_leave(c, {"community"})

NextLogs == Tick \/ \E c \in Conns : StartLogs(c)

SpecLogs == Init /\ [][NextLogs]_vars

\* connections that come and go: session and log requests, and disconnects
StartSession(c) ==
    \/ connect(c)
    \/ session_init(c)
    \/ handle_log(c, TwoLogs)
    \/ disconnect(c)

NextSession == Tick \/ \E c \in Conns : StartSession(c)

SpecSession == Init /\ [][NextSession]_vars

\* session, share and upvote requests on one record and joins of the
\* community room, interleaved
StartReplay(c) ==
    \/ connect(c)
    \/ session_init(c)
    \/ share_list(c, OneShare)
    \/ upvote_begin(c, OneUpvote)
    \/ on_join(c, {"community"})

NextReplay == \E c \in Conns : StartReplay(c) \/ Step(c)

SpecReplay == Init /\ [][NextReplay]_vars

\* log requests of every type, and an accept without the accepted query
TypedLogs == LogInputs \cup {[type |-> "accept"]}

\* session and log requests
StartTyped(c) ==
    \/ connect(c)
    \/ session_init(c)
    \/ handle_log(c, TypedLogs)

NextTyped == Tick \/ \E c \in Conns : StartTyped(c)

SpecTyped == Init /\ [][NextTyped]_vars

\* every kind of request, one at a time, at one time of the clock
StartEvery(c) ==
    \/ connect(c)
    \/ session_init(c)
    \/ handle_log(c, TwoLogs)
    \/ on_join(c, {"community"})
    \/ on_leave(c, {"community"})
    \/ share_list(c, OneShare)
    \/ upvote_begin(c, OneUpvote)
    \/ disconnect(c)

NextEvery == \E c \in Conns : (Quiet /\ StartEvery(c)) \/ Step(c)

SpecEvery == Init /\ [][NextEvery]_vars

\* session, share and upvote requests on one record, interleaved, at one
\* time of the clock
NextVotes == \E c \in Conns : StartUpvote(c) \/ Step(c)

SpecVotes == Init /\ [][NextVotes]_vars

----------------------------------------------------------------------------
(* reverse_readline on the text of a log file *)

MaxLines == 12
MaxMixed == 5
MaxBuf == 5

Min(a, b) == IF a < b THEN a ELSE b

\* the lines a client can have logged, as text: the first character stands
\* for the "type" of the JSON object
LineKinds == {<<"a">>, <<"d", "x">>, <<"t", "r", "y">>}
Accept == <<"a">>

\* json.loads(line)["type"]; an empty line is no JSON
TypeOf(line) ==
    IF Len(line) = 0 THEN "ValueError"
    ELSE IF line[1] = "a" THEN "accept" ELSE IF line[1] = "d" THEN "define" ELSE "try"

RECURSIVE FileText(_)
\* log(): every entry is written followed by "\n"
FileText(lines) ==
    IF lines = <<>> THEN <<>> ELSE lines[1] \o <<"\n">> \o FileText(Tail(lines))

RECURSIVE split(_)
\* buffer.split('\n')
split(buffer) ==
    IF \A i \in 1..Len(buffer) : buffer[i] # "\n"
    THEN <<buffer>>
    ELSE LET i == CHOOSE k \in 1..Len(buffer) :
                    buffer[k] = "\n" /\ \A j \in 1..(k - 1) : buffer[j] # "\n"
         IN  <<SubSeq(buffer, 1, i - 1)>> \o split(SubSeq(buffer, i + 1, Len(buffer)))

\* every chunk taken to end a line: the saved segment is never glued on
EndsLine_Always(buffer) == TRUE

\* line 365: buffer[-1] is '\n'
EndsLine(buffer) == buffer[Len(buffer)] = "\n"

RECURSIVE YieldLines(_, _)
\* lines 370-372: the lines of the chunk but the first, last first, the empty
\* ones left out
YieldLines(lines, index) ==
    IF index < 2 THEN <<>>
    ELSE (IF Len(lines[index]) > 0 THEN <<lines[index]>> ELSE <<>>)
            \o YieldLines(lines, index - 1)

RECURSIVE read_chunks(_, _, _, _, _)
\* lines 352-375: the loop over the chunks, from the end of the file; segment
\* is <<>> for None and <<s>> for the string s; the result is what is yielded
read_chunks(text, buf_size, offset0, remaining_size, segment) ==
    IF remaining_size <= 0
    THEN segment
    ELSE LET file_size == Len(text)
             offset == Min(file_size, offset0 + buf_size)
             n == Min(remaining_size, buf_size)
             buffer == SubSeq(text, file_size - offset + 1, file_size - offset + n)
             lines0 == split(buffer)
             glue == segment # <<>> /\ ~EndsLine(buffer)
             lines == IF glue
                      THEN [lines0 EXCEPT ![Len(lines0)] = @ \o segment[1]]
                      ELSE lines0
             yielded == IF segment # <<>> /\ ~glue THEN segment ELSE <<>>
         IN  yielded \o YieldLines(lines, Len(lines))
                \o read_chunks(text, buf_size, offset, remaining_size - buf_size,
                               <<lines[1]>>)

\* reverse_readline(filename, buf_size) on a file with this text
reverse_readline_text(text, buf_size) ==
    read_chunks(text, buf_size, 0, Len(text), <<>>)

RECURSIVE utts_loop(_, _, _)
\* emit_utterances, lines 176-185: collect accepts and defines, stop at
\* count > 10; a line that is no JSON ends the replay with an exception
utts_loop(rev, utts, count) ==
    IF rev = <<>> THEN utts
    ELSE IF TypeOf(rev[1]) = "ValueError" THEN <<<<"ValueError">>>>
    ELSE LET hit == IsUtterance([type |-> TypeOf(rev[1])])
             utts1 == IF hit THEN Append(utts, rev[1]) ELSE utts
             count1 == IF hit THEN count + 1 ELSE count
         IN  IF count1 > MaxUtts - 1 THEN utts1 ELSE utts_loop(Tail(rev), utts1, count1)

\* a client logs one more entry: any kind for the first MaxMixed entries,
\* accepts after them
WriteLine ==
    /\ call.fn \in {"none", "write"}
    /\ LET lines == IF call.fn = "none" THEN <<>> ELSE call.lines
       IN  /\ Len(lines) < MaxLines
           /\ \E line \in (IF Len(lines) < MaxMixed THEN LineKinds ELSE {Accept}) :
                call' = [fn |-> "write", lines |-> Append(lines, line)]
    /\ UNCHANGED server

\* the log is scanned backwards in chunks of buf_size characters
Scan ==
    /\ call.fn = "write"
    /\ \E buf_size \in 1..MaxBuf :
        LET out == reverse_readline_text(FileText(call.lines), buf_size)
        IN  call' = [fn |-> "reverse_readline", lines |-> call.lines,
                     buf_size |-> buf_size, out |-> out,
                     utts |-> utts_loop(out, <<>>, 0)]
    /\ UNCHANGED server

NextScan == WriteLine \/ Scan

SpecScan == Init /\ [][NextScan]_vars

----------------------------------------------------------------------------
(* emit_utterances on the files of the log folder *)

MaxFiles == 7
MaxMtime == 3

\* one more log file is found in the folder, modified at some time
TouchFile ==
    /\ call.fn \in {"none", "walk"}
    /\ LET files == IF call.fn = "none" THEN <<>> ELSE call.files
       IN  /\ Len(files) < MaxFiles
           /\ \E mtime \in 0..MaxMtime :
                call' = [fn |-> "walk",
                         files |-> Append(files, [mtime |-> mtime, uid |-> Len(files) + 1])]
    /\ UNCHANGED server

\* the files are scanned for the most recent ones, which are then sorted
Recent ==
    /\ call.fn = "walk"
    /\ call' = [fn |-> "emit_utterances", files |-> call.files,
                out |-> SortedDesc(Latest5(<<>>, call.files))]
    /\ UNCHANGED server

NextRecent == TouchFile \/ Recent

SpecRecent == Init /\ [][NextRecent]_vars

----------------------------------------------------------------------------
(* score_struct on given times and upvote counts *)

MaxSteps == 4
MaxVotes == 1

TIME_INTERVAL == 1800

\* GRAVITY = 1.4, as the fraction GravityNum / GravityDen
GravityNum == 7
GravityDen == 5

\* the times of the model are multiples of half a TIME_INTERVAL
Grain == TIME_INTERVAL \div 2

\* the subtraction turned round
elapsed_Swapped(score) == score.timestamp - score.now

\* line 106: the seconds between submission and now (time_ago * TIME_INTERVAL)
elapsed(score) == score.now - score.timestamp

\* line 107: time_ago + 2, counted in Grains
base(score) == (elapsed(score) + 2 * TIME_INTERVAL) \div Grain

RECURSIVE Power(_, _)
Power(x, n) == IF n = 0 THEN 1 ELSE x * Power(x, n - 1)

\* line 107: how (upvotesN + 1) / ((time_ago + 2) ** GRAVITY) ends. 0.0 ** 1.4
\* is 0.0 and the division raises; a negative number to the power 1.4 is a
\* complex number in Python 3 and a ValueError in Python 2
score_kind(score, python) ==
    IF base(score) > 0 THEN "float"
    ELSE IF base(score) = 0 THEN "ZeroDivisionError"
    ELSE IF python = 3 THEN "complex" ELSE "ValueError"

\* line 107 for two scores with time_ago + 2 > 0: the first is the larger.
\* n1 / b1^(7/5) > n2 / b2^(7/5) iff n1^5 * b2^7 > n2^5 * b1^7
score_greater(s1, s2) ==
    Power(s1.upvotesN + 1, GravityDen) * Power(base(s2), GravityNum)
        > Power(s2.upvotesN + 1, GravityDen) * Power(base(s1), GravityNum)

\* the arguments of one call of score_struct, and the clock at the call
ScoreArgs ==
    [timestamp : {Grain * k : k \in 0..(MaxSteps + 1)},
     upvotesN : 0..MaxVotes,
     now : {Grain * k : k \in 0..MaxSteps}]

\* score_struct is called
Score ==
    /\ call.fn = "none"
    /\ \E a \in ScoreArgs, python \in {2, 3} :
        call' = [fn |-> "score_struct", a |-> a, python |-> python,
                 kind |-> score_kind(a, python)]
    /\ UNCHANGED server

\* score_struct is called again, for the same record or another
Rescore ==
    /\ call.fn = "score_struct"
    /\ \E b \in ScoreArgs :
        call' = [fn |-> "rescore", a |-> call.a, b |-> b, python |-> call.python,
                 kind |-> score_kind(b, call.python)]
    /\ UNCHANGED server

NextScore == Score \/ Rescore

SpecScore == Init /\ [][NextScore]_vars

----------------------------------------------------------------------------
(* Properties *)

UpvotePcs == {"up_read", "up_check", "up_write", "up_emit"}

\* the upvoters stored in a struct file (none while the file is empty)
Upvoters(uid, id) ==
    LET lines == ReadLines(uid, id)
    IN  IF Len(lines) = 0 THEN {} ELSE {lines[1][i] : i \in 1..Len(lines[1])}

\* C1: no lost upvotes. Once no upvote handler is running, every voter that
\* an upvote handler wrote into a record is among the record's stored
\* upvoters.
C1_NoLostUpvotes ==
    (\A c \in Conns : h[c].pc \notin UpvotePcs) =>
        \A a \in acked : a[3] \in Upvoters(a[1], a[2])

\* the record a share handler has written for its request
Assigned(c) == <<h[c].as, h[c].loc.new_struct_id>>

\* C2: unique localId under concurrent share. No two share requests of
\* connections identified as the same owner are assigned the same (owner,
\* localId): neither two handlers that have both written their record, nor
\* one of them and the share that returned last.
C2_UniqueLocalId ==
    /\ \A c, d \in Conns :
        (/\ c # d
         /\ h[c].pc = "share_emit" /\ sent[c] = {h[c].as}
         /\ h[d].pc = "share_emit" /\ sent[d] = {h[d].as})
            => Assigned(c) # Assigned(d)
    /\ \A d \in Conns :
        (/\ last.op = "share" /\ last.outcome = "ok" /\ last.conn # d
         /\ last.sent = {last.as}
         /\ h[d].pc = "share_emit" /\ sent[d] = {h[d].as})
            => <<last.as, last.loc.new_struct_id>> # Assigned(d)

\* a handler wrote to a log or a struct file
Wrote(r) == Len(r.as) > 0

\* C3: identity is bound per connection. What a log, share, upvote or
\* disconnect request of an identified connection writes goes under the
\* sessionId that connection supplied itself, whatever the others supplied.
C3_IdentityPerConnection ==
    (/\ last.op \in {"log", "share", "upvote", "disconnect"}
     /\ last.sent # {}
     /\ Wrote(last)) => last.sent = {last.as}

\* C4: upvote is idempotent. While requests are processed one at a time, no
\* step of an upvote handler whose caller is already among the stored
\* upvoters of the record changes any struct file.
C4_UpvoteIdempotent ==
    [][(\E c \in Conns :
            /\ h[c].pc \in UpvotePcs
            /\ HasUid
            /\ session.uid \in Upvoters(h[c].data.uid, h[c].data.id))
        => structs' = structs]_vars

\* a second upvote by the same voter has returned
C4_Witness ==
    /\ last.op = "upvote"
    /\ "upvotes" \in DOMAIN last.loc
    /\ ~Wrote(last)
    /\ Len(last.loc.upvotes) = 1
    /\ Upvoters(last.data.uid, last.data.id) = {session.uid}

\* C5: every upvote of an identified caller on an existing record returns
\* without error and broadcasts exactly one upvote event to the community
\* room, with the score of the stored timestamp and the current upvote count.
C5_UpvoteBroadcasts ==
    (last.op = "upvote" /\ last.sent # {} /\ "upvotes" \in DOMAIN last.loc) =>
        /\ last.outcome = "ok"
        /\ Len(last.emitted) = 1
        /\ last.emitted[1].name = "upvote"
        /\ last.emitted[1].to = rooms["community"]
        /\ last.emitted[1].msg.score.upvotesN = Len(last.loc.upvotes)

\* C6: end-to-end upvote addressing. After Alice, whose sessionId is longer
\* than her publicId, has shared record "1", an upvote by another identity
\* that names the record by Alice's publicId adds the voter to the stored
\* upvoters and broadcasts upvote{uid: publicId(Alice), id, up: publicId(voter)}.
C6_EndToEndUpvote ==
    (/\ Quiet
     /\ last.op = "upvote"
     /\ last.sent # {}
     /\ last.data = [uid |-> scrub_uid(Alice), id |-> "1"]
     /\ Len(ReadLines(Alice, "1")) = 3
     /\ HasUid /\ session.uid # Alice) =>
        /\ session.uid \in Upvoters(Alice, "1")
        /\ Len(last.emitted) = 1
        /\ last.emitted[1].name = "upvote"
        /\ last.emitted[1].msg.uid = scrub_uid(Alice)
        /\ last.emitted[1].msg.id = "1"
        /\ last.emitted[1].msg.up = scrub_uid(session.uid)

\* C7: sequential localId allocation and share event. While requests are
\* processed one at a time, the share that finds n - 1 records of its owner
\* writes record n with no upvoters and the payload as sent, touches no other
\* file, and broadcasts struct{uid: publicId(owner), id: n, upvotes: [],
\* struct: payload} to the community room.
C7_SequentialShare ==
    [][\A c \in Conns :
        LET owner == session.uid
            n == Cardinality(DOMAIN structs[owner]) + 1
        IN  /\ (h[c].pc = "share_write" /\ h'[c].pc = "share_emit") =>
                /\ DOMAIN structs'[owner] = DOMAIN structs[owner] \cup {Str(n)}
                /\ Str(n) \notin DOMAIN structs[owner]
                /\ structs'[owner][Str(n)] = <<<<>>, now, h[c].data.struct>>
                /\ \A p \in Paths : structs'[p[1]][p[2]] = structs[p[1]][p[2]]
                /\ \A u \in SessionIds \ {owner} : structs'[u] = structs[u]
            /\ (h[c].pc = "share_emit" /\ h'[c].pc = "ready") =>
                /\ Len(last'.emitted) = 1
                /\ last'.emitted[1].name = "struct"
                /\ last'.emitted[1].to = rooms["community"]
                /\ last'.emitted[1].msg.uid = scrub_uid(owner)
                /\ last'.emitted[1].msg.id = Str(n - 1)
                /\ last'.emitted[1].msg.upvotes = <<>>
                /\ last'.emitted[1].msg.struct = h[c].data.struct
                /\ structs'[owner][Str(n - 1)][3] = h[c].data.struct]_vars

\* the second share of an owner has returned
C7_Witness ==
    /\ last.op = "share"
    /\ last.outcome = "ok"
    /\ last.loc.new_struct_id = "2"
    /\ DOMAIN structs[last.as] = {"1", "2"}

\* C8: requests before identification have no effect. A log, share or upvote
\* request of a connection that has supplied no sessionId writes nothing and
\* broadcasts nothing.
C8_NoEffectBeforeSession ==
    (last.op \in {"log", "share", "upvote"} /\ last.sent = {}) =>
        (~Wrote(last) /\ last.emitted = <<>>)

\* C9: a log request without `type` is rejected. Its handler appends to no
\* log, broadcasts nothing and leaves the struct files and the rooms as they
\* were.
C9_LogWithoutType ==
    [][(last' # last /\ last'.op = "log" /\ "type" \notin DOMAIN last'.data) =>
        /\ logs' = logs
        /\ structs' = structs
        /\ rooms' = rooms
        /\ last'.emitted = <<>>]_vars

\* a log request without `type` has returned, from an identified caller
C9_Witness ==
    /\ last.op = "log"
    /\ "type" \notin DOMAIN last.data
    /\ HasUid
    /\ last.sent # {}

\* C10: an upvote that names no existing record is a silent no-op. Its
\* handler returns at once, changes no file, broadcasts nothing and leaves
\* the connection ready for its next request; and no upvote handler gets past
\* its guards without such a file.
C10_UpvoteMissingRecord ==
    [][/\ (/\ last' # last
           /\ last'.op = "upvote"
           /\ ~(last'.data.uid \in DOMAIN structs
                    /\ last'.data.id \in DOMAIN structs[last'.data.uid])) =>
            /\ h[last'.conn].pc = "ready"
            /\ h'[last'.conn].pc = "ready"
            /\ structs' = structs
            /\ logs' = logs
            /\ acked' = acked
            /\ last'.emitted = <<>>
       /\ \A c \in Conns :
            (h[c].pc = "ready" /\ h'[c].pc = "up_read") =>
                /\ h'[c].data.uid \in DOMAIN structs
                /\ h'[c].data.id \in DOMAIN structs[h'[c].data.uid]]_vars

\* an identified caller's upvote on a missing record has returned, and the
\* connection went on to a later request that was served
C10_Witness ==
    /\ last.op = "upvote"
    /\ last.outcome = "noop"
    /\ last.sent # {}
    /\ last.data.uid \in SessionIds
    /\ last.data.id \notin DOMAIN structs[last.data.uid]

\* the entries of a log read forward
Reversed(seq) == [i \in 1..Len(seq) |-> seq[Len(seq) + 1 - i]]

\* the last n accepts and defines of a log read forward, most recent first
LastMatching(lines, n) ==
    LET hits == SelectSeq(lines, LAMBDA l : TypeOf(l) \in {"accept", "define"})
        k == Min(n, Len(hits))
    IN  Reversed(SubSeq(hits, Len(hits) - k + 1, Len(hits)))

\* C11: reverse scan equals forward reference. For every log of non-empty
\* newline-terminated entries and every chunk size, reverse_readline yields
\* the entries once each, last first, and the utterances taken from it are the
\* last 11 accepts and defines of the log, most recent first.
C11_ReverseScan ==
    call.fn = "reverse_readline" =>
        /\ call.out = Reversed(call.lines)
        /\ call.utts = LastMatching(call.lines, 11)

\* a log of more than 11 accepts and defines, with entries of other types,
\* scanned in chunks shorter than a line
C11_Witness ==
    /\ call.fn = "reverse_readline"
    /\ call.buf_size = 2
    /\ Len(call.lines) = 12
    /\ call.lines[3] = <<"t", "r", "y">>
    /\ call.lines[2] = <<"d", "x">>
    /\ Len(call.utts) = 11

\* the share that wrote the file p has returned
ShareDone(p) == \A d \in Conns : ~(h[d].pc = "share_emit" /\ Assigned(d) = p)

\* the struct events for the record p among the events
StructEventsFor(p, events) ==
    {i \in 1..Len(events) :
        /\ events[i].name = "struct"
        /\ events[i].msg.uid = scrub_uid(p[1])
        /\ events[i].msg.id = p[2]}

\* C12: join replay is complete. A join of the community room sends the
\* joiner exactly one struct event for every record whose share has returned,
\* with the record's stored upvoters and payload, whatever other handlers are
\* running; and with no struct file and no log file it sends no event.
C12_JoinReplay ==
    [][(last' # last /\ last'.op = "join" /\ last'.data.room = "community") =>
        /\ \A p \in Paths :
            ShareDone(p) =>
                /\ Cardinality(StructEventsFor(p, last'.emitted)) = 1
                /\ \A i \in StructEventsFor(p, last'.emitted) :
                    /\ last'.emitted[i].to = {last'.conn}
                    /\ last'.emitted[i].msg.upvotes = structs[p[1]][p[2]][1]
                    /\ last'.emitted[i].msg.struct = structs[p[1]][p[2]][3]
        /\ (Paths = {} /\ LogFiles = {}) => last'.emitted = <<>>]_vars

\* C13: log handling by type. A log request with a `type` from an identified
\* caller appends exactly one entry, to the caller's own log, and broadcasts
\* new_accept to the community room if the type is accept, new_define if it
\* is define, and nothing otherwise.
C13_LogByType ==
    [][(/\ last' # last
        /\ last'.op = "log"
        /\ "type" \in DOMAIN last'.data
        /\ last'.sent # {}) =>
        LET own == CHOOSE u \in last'.sent : TRUE
            type == last'.data.type
        IN  /\ Len(logs'[own]) = Len(logs[own]) + 1
            /\ SubSeq(logs'[own], 1, Len(logs[own])) = logs[own]
            /\ logs'[own][Len(logs'[own])].type = type
            /\ \A u \in SessionIds \ {own} : logs'[u] = logs[u]
            /\ IF type \in {"accept", "define"}
               THEN /\ Len(last'.emitted) = 1
                    /\ last'.emitted[1].to = rooms["community"]
                    /\ last'.emitted[1].name =
                            (IF type = "accept" THEN "new_accept" ELSE "new_define")
               ELSE last'.emitted = <<>>]_vars

\* the replay events among the events that show the record of a live struct event
ReplayedAs(live, events) ==
    {i \in 1..Len(events) :
        /\ events[i].name = "struct"
        /\ events[i].msg.uid = live.msg.uid
        /\ events[i].msg.id = live.msg.id}

\* C14: replay precedes live events. A connection whose join of the community
\* room has just returned is not sent the live struct event of a share for a
\* record that the replay of that join has already shown it.
C14_NoReplayedLiveStruct ==
    [][(/\ last.op = "join"
        /\ last' # last
        /\ last'.op = "share"
        /\ last'.outcome = "ok"
        /\ last.conn \in last'.emitted[1].to) =>
            ReplayedAs(last'.emitted[1], last.emitted) = {}]_vars

\* the identities chosen are min(5, n) files of the folder, none of them
\* modified before a file that was left out
RecentChosen ==
    LET files == call.files
        out == call.out
        chosen == {out[i].uid : i \in 1..Len(out)}
    IN  /\ Len(out) = Min(5, Len(files))
        /\ Cardinality(chosen) = Len(out)
        /\ \A i \in 1..Len(out) : \E k \in 1..Len(files) : files[k] = out[i]
        /\ \A i \in 1..Len(out) : \A k \in 1..Len(files) :
            files[k].uid \notin chosen => out[i].mtime >= files[k].mtime

\* C15: top-5 recent identities. For any log files with modification times,
\* the replay takes min(5, n) identities, those modified last, and emits them
\* most recently modified first.
C15_TopRecent ==
    call.fn = "emit_utterances" =>
        /\ RecentChosen
        /\ \A i, j \in 1..Len(call.out) :
            i < j => call.out[i].mtime >= call.out[j].mtime

\* C16: score monotonicity. Of two scores with the same upvote count and
\* elapsed times >= 0, the one with the longer elapsed time is strictly
\* smaller; of two with the same elapsed time >= 0, the one with more upvotes
\* is strictly larger.
C16_ScoreMonotone ==
    call.fn = "rescore" =>
        LET a == call.a
            b == call.b
            ea == a.now - a.timestamp
            eb == b.now - b.timestamp
        IN  /\ (a.upvotesN = b.upvotesN /\ 0 <= ea /\ ea < eb) =>
                (score_greater(a, b) /\ ~score_greater(b, a))
            /\ (ea = eb /\ 0 <= ea /\ a.upvotesN < b.upvotesN) =>
                (score_greater(b, a) /\ ~score_greater(a, b))

\* a record scored at its submission and again one Grain later, and a record
\* scored against one with one more upvote at the same age
C16_Witness ==
    /\ call.fn = "rescore"
    /\ \/ /\ call.a.upvotesN = call.b.upvotesN
          /\ call.a.now = call.a.timestamp
          /\ call.b.now = call.b.timestamp + Grain
       \/ /\ call.a.upvotesN + 1 = call.b.upvotesN
          /\ call.a.now - call.a.timestamp = call.b.now - call.b.timestamp
          /\ call.a.now > call.a.timestamp
    /\ score_greater(call.a, call.b) # score_greater(call.b, call.a)

\* C17: the score never fails on clock skew. For a submission time later
\* than now, score_struct returns a value and raises no error.
C17_ScoreOnSkew ==
    (call.fn = "score_struct" /\ call.a.timestamp > call.a.now) =>
        call.kind \notin {"ZeroDivisionError", "ValueError"}

\* C18: upvote frame. No step of an upvote handler changes a log or a struct
\* file other than the record it names, and at every step that record, once
\* complete, stays complete with its submission time and payload as they were.
C18_UpvoteFrame ==
    [][\A c \in Conns :
        h[c].pc \in UpvotePcs =>
            LET uid == h[c].data.uid
                id == h[c].data.id
            IN  /\ logs' = logs
                /\ \A p \in Paths :
                    p # <<uid, id>> => structs'[p[1]][p[2]] = structs[p[1]][p[2]]
                /\ Len(ReadLines(uid, id)) = 3 =>
                    /\ Len(structs'[uid][id]) = 3
                    /\ structs'[uid][id][2] = structs[uid][id][2]
                    /\ structs'[uid][id][3] = structs[uid][id][3]]_vars

\* C19: activity logs are append-only. At every step each log keeps what it
\* held as a prefix of what it holds afterwards, and every entry of every log
\* carries a type and the timestamp the server gave it.
C19_AppendOnly ==
    [][\A u \in SessionIds :
        /\ Len(logs[u]) <= Len(logs'[u])
        /\ SubSeq(logs'[u], 1, Len(logs[u])) = logs[u]
        /\ \A i \in 1..Len(logs'[u]) :
            /\ "type" \in DOMAIN logs'[u][i]
            /\ "timestamp" \in DOMAIN logs'[u][i]
            /\ logs'[u][i].timestamp \in 0..now]_vars

\* a log that holds a connect, a logged accept and a disconnect
C19_Witness ==
    \E u \in SessionIds :
        /\ Len(logs[u]) >= 3
        /\ \E i, j, k \in 1..Len(logs[u]) :
            /\ i < j /\ j < k
            /\ logs[u][i].type = "connect"
            /\ logs[u][j].type = "accept"
            /\ logs[u][k].type = "disconnect"

\* C20: upvoters stay duplicate-free. In every state, however the share and
\* upvote handlers interleave, no struct file lists an identity twice among
\* its upvoters.
C20_NoDuplicateUpvoters ==
    \A p \in Paths :
        LET lines == structs[p[1]][p[2]]
        IN  Len(lines) > 0 =>
                \A i, j \in 1..Len(lines[1]) : i # j => lines[1][i] # lines[1][j]

\* two overlapping upvotes by the same voter on the same record have both
\* appended the voter and written the file
C20_Witness ==
    /\ h[1].pc = "up_emit"
    /\ h[2].pc = "up_emit"
    /\ h[1].data = h[2].data
    /\ h[1].as = h[2].as
    /\ h[1].as \in SessionIds
    /\ h[1].loc.upvotes = <<h[1].as>>
    /\ h[2].loc.upvotes = <<h[2].as>>
    /\ Upvoters(h[1].data.uid, h[1].data.id) = {h[1].as}

====
